---------------------------- MODULE Spec2Model ----------------------------
(***************************************************************************)
(* Mission Simulation Engine of the 3I/ATLAS mission planner               *)
(* (src/src/App.tsx, src/unnamed/part_000 = services/api.ts).              *)
(*                                                                         *)
(* The model covers the App component's state (parameters, results,        *)
(* isSimulating, isAnimating, apiError), the simulateMission and           *)
(* resetMission handlers, the ControlPanel callbacks and the remote call   *)
(* missionAPI.simulate.                                                    *)
(*                                                                         *)
(* JavaScript numbers are IEEE-754 binary64 values.  They are modelled     *)
(* exactly: a number is a sign, an odd mantissa of at most 53 bits (kept   *)
(* as a sequence of 12-bit limbs, since the model checker's integers are   *)
(* 32 bits wide) and a binary exponent; every arithmetic operation is the  *)
(* exact result rounded to nearest, ties to even.                          *)
(***************************************************************************)
EXTENDS Integers, Sequences, FiniteSets, TLC

(***************************************************************************)
(* Natural numbers of arbitrary size: little-endian sequences of limbs,    *)
(* each limb a digit in base 2^LimbBits, without leading zero limbs.       *)
(***************************************************************************)
LimbBits == 12

Base == 2^LimbBits

MaxInt(a, b) == IF a >= b THEN a ELSE b

MinInt(a, b) == IF a <= b THEN a ELSE b

\* limb i (weight Base^(i-1)) of the natural a; 0 beyond its length
Limb(a, i) == IF i >= 1 /\ i <= Len(a) THEN a[i] ELSE 0

RECURSIVE Carry(_, _, _)
\* limbs of the number whose column sums are cols[i..] plus a carry
Carry(cols, i, c) ==
  IF i > Len(cols)
    THEN IF c = 0 THEN << >> ELSE <<c % Base>> \o Carry(cols, i, c \div Base)
    ELSE <<(cols[i] + c) % Base>> \o Carry(cols, i + 1, (cols[i] + c) \div Base)

RECURSIVE Trim(_)
\* the natural a without its leading (high) zero limbs
Trim(a) ==
  IF a = << >> THEN << >>
  ELSE IF a[Len(a)] = 0 THEN Trim(SubSeq(a, 1, Len(a) - 1)) ELSE a

NatOfInt(n) == Trim(Carry(<<n>>, 1, 0))

RECURSIVE IntOfNat(_)
IntOfNat(a) == IF a = << >> THEN 0 ELSE a[1] + Base * IntOfNat(Tail(a))

NatAdd(a, b) ==
  Trim(Carry([i \in 1..MaxInt(Len(a), Len(b)) |-> Limb(a, i) + Limb(b, i)], 1, 0))

\* a * k for a small non-negative integer k
NatMulSmall(a, k) == Trim(Carry([i \in 1..Len(a) |-> a[i] * k], 1, 0))

RECURSIVE ColSum(_, _, _, _)
\* sum over i..Len(a) of a[i] * b[k - i + 1]: column k of the product a * b
ColSum(a, b, k, i) ==
  IF i > Len(a) THEN 0 ELSE a[i] * Limb(b, k - i + 1) + ColSum(a, b, k, i + 1)

NatMul(a, b) ==
  Trim(Carry([k \in 1..(Len(a) + Len(b)) |-> ColSum(a, b, k, 1)], 1, 0))

RECURSIVE NatCmpFrom(_, _, _)
\* compares the limbs i, i-1, .., 1 of a and b: -1, 0 or 1
NatCmpFrom(a, b, i) ==
  IF i = 0 THEN 0
  ELSE IF Limb(a, i) > Limb(b, i) THEN 1
  ELSE IF Limb(a, i) < Limb(b, i) THEN -1
  ELSE NatCmpFrom(a, b, i - 1)

NatCmp(a, b) == NatCmpFrom(a, b, MaxInt(Len(a), Len(b)))

RECURSIVE Borrow(_, _, _, _)
\* limbs of a - b from limb i on, with borrow c; needs a >= b
Borrow(a, b, i, c) ==
  IF i > Len(a) THEN << >>
  ELSE LET d == Limb(a, i) - Limb(b, i) - c
       IN  <<d % Base>> \o Borrow(a, b, i + 1, IF d < 0 THEN 1 ELSE 0)

NatSub(a, b) == Trim(Borrow(a, b, 1, 0))

\* a * 2^s
ShiftLeft(a, s) ==
  IF a = << >> THEN << >>
  ELSE [i \in 1..(s \div LimbBits) |-> 0] \o NatMulSmall(a, 2^(s % LimbBits))

\* floor(a / 2^s)
ShiftRight(a, s) ==
  LET w == s \div LimbBits
      r == s % LimbBits
  IN  IF Len(a) <= w THEN << >>
      ELSE Trim([i \in 1..(Len(a) - w) |->
                  (a[i + w] \div 2^r) + (Limb(a, i + w + 1) % 2^r) * 2^(LimbBits - r)])

\* bit i (weight 2^(i-1)) of a; 0 for i < 1 and beyond its length
BitAt(a, i) ==
  IF i < 1 THEN 0
  ELSE (Limb(a, ((i - 1) \div LimbBits) + 1) \div 2^((i - 1) % LimbBits)) % 2

RECURSIVE IntBitLen(_)
IntBitLen(n) == IF n = 0 THEN 0 ELSE 1 + IntBitLen(n \div 2)

\* number of bits of a natural without leading zero limbs
BitLen(a) ==
  IF a = << >> THEN 0 ELSE LimbBits * (Len(a) - 1) + IntBitLen(a[Len(a)])

\* a is a multiple of 2^s
LowBitsZero(a, s) == s <= 0 \/ \A i \in 1..s : BitAt(a, i) = 0

\* number of trailing (low) zero bits of a non-zero natural
LowZeros(a) ==
  CHOOSE z \in 0..(BitLen(a) - 1) : BitAt(a, z + 1) = 1 /\ LowBitsZero(a, z)

RECURSIVE DivSmall(_, _, _, _)
\* <<quotient limbs i..1, remainder>> of the long division of a by the small d,
\* with r the remainder carried in from the limbs above i
DivSmall(a, d, i, r) ==
  IF i = 0 THEN <<<< >>, r>>
  ELSE LET t    == Base * r + a[i]
           rest == DivSmall(a, d, i - 1, t % d)
       IN  <<Append(rest[1], t \div d), rest[2]>>

(***************************************************************************)
(* JavaScript numbers (IEEE-754 binary64, round to nearest, ties to even). *)
(* A number is [neg, man, exp] with value (-1)^neg * man * 2^exp, where    *)
(* man is zero (the empty sequence) or odd and at most Precision bits.     *)
(* The values of the program stay far from the exponent limits, so         *)
(* subnormals, infinities and NaN do not arise.                            *)
(***************************************************************************)
Precision == 53

Zero == [neg |-> FALSE, man |-> << >>, exp |-> 0]

\* the number (-1)^neg * a * 2^e for a natural a of at most Precision bits
Canon(neg, a, e) ==
  LET t == Trim(a)
  IN  IF t = << >> THEN Zero
      ELSE [neg |-> neg, man |-> ShiftRight(t, LowZeros(t)), exp |-> e + LowZeros(t)]

\* the number nearest to (-1)^neg * a * 2^e, ties to the even mantissa
Round(neg, a, e) ==
  LET t == Trim(a)
      s == BitLen(t) - Precision
  IN  IF s <= 0 THEN Canon(neg, t, e)
      ELSE LET q      == ShiftRight(t, s)
               half   == BitAt(t, s) = 1
               sticky == ~LowBitsZero(t, s - 1)
               up     == half /\ (sticky \/ BitAt(q, 1) = 1)
           IN  Canon(neg, IF up THEN NatAdd(q, <<1>>) ELSE q, e + s)

\* the numeric literal n/d (0 <= n, 0 < d, both below 2^19), e.g. 0.8 = Dec(8, 10)
Dec(n, d) ==
  LET a  == ShiftLeft(NatOfInt(n), 8 * LimbBits)
      qr == DivSmall(a, d, Len(a), 0)
      q  == NatMulSmall(Trim(qr[1]), 2)
  IN  Round(FALSE, IF qr[2] = 0 THEN q ELSE NatAdd(q, <<1>>), -(8 * LimbBits) - 1)

FNeg(x) == IF x.man = << >> THEN x ELSE [x EXCEPT !.neg = ~x.neg]

\* x * y
FMul(x, y) == Round(x.neg # y.neg, NatMul(x.man, y.man), x.exp + y.exp)

\* the mantissa of x as a multiple of 2^e, e <= x.exp
Align(x, e) == ShiftLeft(x.man, x.exp - e)

\* -1, 0 or 1 as |x| is less than, equal to or greater than |y|
MagCmp(x, y) ==
  LET e == MinInt(x.exp, y.exp) IN NatCmp(Align(x, e), Align(y, e))

\* x + y
FAdd(x, y) ==
  LET e  == MinInt(x.exp, y.exp)
      ax == Align(x, e)
      ay == Align(y, e)
  IN  IF x.neg = y.neg THEN Round(x.neg, NatAdd(ax, ay), e)
      ELSE IF NatCmp(ax, ay) >= 0 THEN Round(x.neg, NatSub(ax, ay), e)
      ELSE Round(y.neg, NatSub(ay, ax), e)

\* x - y
FSub(x, y) == FAdd(x, FNeg(y))

\* x < y
FLess(x, y) ==
  IF x.neg /\ ~y.neg THEN TRUE
  ELSE IF ~x.neg /\ y.neg THEN FALSE
  ELSE IF x.neg THEN MagCmp(x, y) > 0
  ELSE MagCmp(x, y) < 0

\* x > y
FGreater(x, y) == FLess(y, x)

\* x <= y
FLeq(x, y) == ~FLess(y, x)

\* Math.max(x, y)
FMax(x, y) == IF FLess(x, y) THEN y ELSE x

\* Math.min(x, y)
FMin(x, y) == IF FLess(y, x) THEN y ELSE x

\* 10^k for a small k
Pow10(k) == IF k = 0 THEN 1 ELSE IF k = 1 THEN 10 ELSE 100

\* x.toFixed(k) for k <= 2: the integer n with n / 10^k nearest to |x| (the larger
\* on a tie) and the sign; "16.2" is [neg |-> FALSE, digits |-> 162, places |-> 1]
ToFixed(x, k) ==
  LET n == NatMulSmall(x.man, Pow10(k))
      v == IF x.exp >= 0 THEN ShiftLeft(n, x.exp)
           ELSE NatAdd(ShiftRight(n, -x.exp), NatOfInt(BitAt(n, -x.exp)))
  IN  [neg |-> x.neg /\ IntOfNat(v) # 0, digits |-> IntOfNat(v), places |-> k]

One == Dec(1, 1)

\* Math.abs(x)
FAbs(x) == [x EXCEPT !.neg = FALSE]

\* x / (d * 2^e) for an integer d with 0 < d < 2^19
FDivSmall(x, d, e) ==
  IF x.man = << >> THEN Zero
  ELSE LET a  == ShiftLeft(x.man, 8 * LimbBits)
           qr == DivSmall(a, d, Len(a), 0)
           q  == NatMulSmall(Trim(qr[1]), 2)
       IN  Round(x.neg, IF qr[2] = 0 THEN q ELSE NatAdd(q, <<1>>),
                 x.exp - (8 * LimbBits) - 1 - e)

\* Math.pow(x, n) for n = 2 or 3: the binary64 nearest to the exact power
FPow(x, n) ==
  IF n = 2 THEN Round(FALSE, NatMul(x.man, x.man), 2 * x.exp)
  ELSE Round(x.neg, NatMul(NatMul(x.man, x.man), x.man), 3 * x.exp)

\* the integer n as a number, exact for |n| < 2^31
FInt(n) == Canon(n < 0, NatOfInt(IF n < 0 THEN -n ELSE n), 0)

\* NaN: what arithmetic on the time of an Invalid Date yields; a mantissa that no
\* operation above produces
NaN == [neg |-> FALSE, man |-> <<0>>, exp |-> 0]

\* Math.PI
Pi == [neg |-> FALSE, man |-> <<1443, 2184, 3946, 579, 3>>, exp |-> -48]

\* Math.sin and Math.cos are implementation-approximated; the table holds, for
\* every argument the program passes, the binary64 nearest to the exact value
\* <<argument, sine, cosine>>
TrigTable ==
  { <<[neg |-> FALSE, man |-> << >>, exp |-> 0],
       [neg |-> FALSE, man |-> << >>, exp |-> 0],
       [neg |-> FALSE, man |-> <<1>>, exp |-> 0]>>,
    <<[neg |-> FALSE, man |-> <<909, 185, 4041, 173, 8>>, exp |-> -55],
       [neg |-> FALSE, man |-> <<889, 3593, 2587, 304, 16>>, exp |-> -56],
       [neg |-> FALSE, man |-> <<511, 3874, 2783, 3966, 15>>, exp |-> -52]>>,
    <<[neg |-> FALSE, man |-> <<909, 185, 4041, 173, 8>>, exp |-> -54],
       [neg |-> FALSE, man |-> <<2783, 3792, 1882, 2053>>, exp |-> -50],
       [neg |-> FALSE, man |-> <<2307, 2061, 1876, 3062, 31>>, exp |-> -53]>>,
    <<[neg |-> FALSE, man |-> <<3411, 2325, 4013, 260, 12>>, exp |-> -54],
       [neg |-> FALSE, man |-> <<3919, 2566, 908, 4088, 2>>, exp |-> -52],
       [neg |-> FALSE, man |-> <<2559, 592, 1452, 1774, 31>>, exp |-> -53]>>,
    <<[neg |-> FALSE, man |-> <<909, 185, 4041, 173, 8>>, exp |-> -53],
       [neg |-> FALSE, man |-> <<971, 224, 2301, 3752, 15>>, exp |-> -54],
       [neg |-> FALSE, man |-> <<247, 3720, 1296, 3967>>, exp |-> -48]>>,
    <<[neg |-> FALSE, man |-> <<1927, 2894, 2427, 2573>>, exp |-> -49],
       [neg |-> FALSE, man |-> <<2383, 766, 3895, 3182, 19>>, exp |-> -54],
       [neg |-> FALSE, man |-> <<1279, 1093, 3603, 1776, 30>>, exp |-> -53]>>,
    <<[neg |-> FALSE, man |-> <<3411, 2325, 4013, 260, 12>>, exp |-> -53],
       [neg |-> FALSE, man |-> <<1315, 337, 2889, 3870, 2>>, exp |-> -51],
       [neg |-> FALSE, man |-> <<2789, 3829, 2717, 3083, 29>>, exp |-> -53]>>,
    <<[neg |-> FALSE, man |-> <<567, 3396, 1951, 304, 14>>, exp |-> -53],
       [neg |-> FALSE, man |-> <<413, 600, 1993, 1023, 27>>, exp |-> -54],
       [neg |-> FALSE, man |-> <<1419, 3521, 2012, 3909, 28>>, exp |-> -53]>>,
    <<[neg |-> FALSE, man |-> <<909, 185, 4041, 173, 8>>, exp |-> -52],
       [neg |-> FALSE, man |-> <<1193, 1533, 1710, 1704, 15>>, exp |-> -53],
       [neg |-> FALSE, man |-> <<89, 2076, 1102, 171, 28>>, exp |-> -53]>>,
    <<[neg |-> FALSE, man |-> <<3069, 1440, 1924, 391, 18>>, exp |-> -53],
       [neg |-> FALSE, man |-> <<2897, 386, 3644, 599, 17>>, exp |-> -53],
       [neg |-> FALSE, man |-> <<1859, 2849, 3583, 2085, 13>>, exp |-> -52]>>,
    <<[neg |-> FALSE, man |-> <<1927, 2894, 2427, 2573>>, exp |-> -48],
       [neg |-> FALSE, man |-> <<3375, 938, 386, 1657, 9>>, exp |-> -52],
       [neg |-> FALSE, man |-> <<3733, 1839, 3827, 966, 3>>, exp |-> -50]>>,
    <<[neg |-> FALSE, man |-> <<1475, 3581, 1896, 478, 22>>, exp |-> -53],
       [neg |-> FALSE, man |-> <<443, 2896, 1790, 1628, 20>>, exp |-> -53],
       [neg |-> FALSE, man |-> <<1525, 2779, 1457, 1344, 12>>, exp |-> -52]>>,
    <<[neg |-> FALSE, man |-> <<3411, 2325, 4013, 260, 12>>, exp |-> -52],
       [neg |-> FALSE, man |-> <<19, 274, 3925, 3708, 21>>, exp |-> -53],
       [neg |-> FALSE, man |-> <<3083, 3733, 2817, 2717, 11>>, exp |-> -52]>>,
    <<[neg |-> FALSE, man |-> <<4037, 2860, 2982, 282, 13>>, exp |-> -52],
       [neg |-> FALSE, man |-> <<3083, 3733, 2817, 2717, 11>>, exp |-> -52],
       [neg |-> FALSE, man |-> <<19, 274, 3925, 3708, 21>>, exp |-> -53]>>,
    <<[neg |-> FALSE, man |-> <<567, 3396, 1951, 304, 14>>, exp |-> -52],
       [neg |-> FALSE, man |-> <<1525, 2779, 1457, 1344, 12>>, exp |-> -52],
       [neg |-> FALSE, man |-> <<443, 2896, 1790, 1628, 20>>, exp |-> -53]>>,
    <<[neg |-> FALSE, man |-> <<1685, 491, 3187, 3624, 1>>, exp |-> -49],
       [neg |-> FALSE, man |-> <<3733, 1839, 3827, 966, 3>>, exp |-> -50],
       [neg |-> FALSE, man |-> <<3375, 938, 386, 1657, 9>>, exp |-> -52]>>,
    <<[neg |-> FALSE, man |-> <<909, 185, 4041, 173, 8>>, exp |-> -51],
       [neg |-> FALSE, man |-> <<1859, 2849, 3583, 2085, 13>>, exp |-> -52],
       [neg |-> FALSE, man |-> <<693, 3096, 2019, 293, 1>>, exp |-> -49]>>,
    <<[neg |-> FALSE, man |-> <<1635, 3298, 1762, 1116, 4>>, exp |-> -50],
       [neg |-> FALSE, man |-> <<45, 1038, 2599, 85, 14>>, exp |-> -52],
       [neg |-> FALSE, man |-> <<2383, 3066, 3420, 3408, 30>>, exp |-> -54]>>,
    <<[neg |-> FALSE, man |-> <<3069, 1440, 1924, 391, 18>>, exp |-> -52],
       [neg |-> FALSE, man |-> <<1379, 880, 1527, 977, 7>>, exp |-> -51],
       [neg |-> FALSE, man |-> <<103, 1174, 3570, 3327, 6>>, exp |-> -52]>>,
    <<[neg |-> FALSE, man |-> <<3895, 3035, 2494, 2254, 9>>, exp |-> -51],
       [neg |-> FALSE, man |-> <<1721, 1981, 3751, 1794, 7>>, exp |-> -51],
       [neg |-> FALSE, man |-> <<2331, 2698, 2632, 2293, 23>>, exp |-> -54]>>,
    <<[neg |-> FALSE, man |-> <<1927, 2894, 2427, 2573>>, exp |-> -47],
       [neg |-> FALSE, man |-> <<1279, 1093, 3603, 1776, 30>>, exp |-> -53],
       [neg |-> FALSE, man |-> <<3733, 1839, 3827, 966, 1>>, exp |-> -50]>>,
    <<[neg |-> FALSE, man |-> <<849, 3046, 2927, 456, 21>>, exp |-> -52],
       [neg |-> FALSE, man |-> <<247, 3720, 1296, 3967>>, exp |-> -48],
       [neg |-> FALSE, man |-> <<487, 2160, 1150, 3924, 7>>, exp |-> -53]>>,
    <<[neg |-> FALSE, man |-> <<1475, 3581, 1896, 478, 22>>, exp |-> -52],
       [neg |-> FALSE, man |-> <<1279, 296, 726, 2935, 15>>, exp |-> -52],
       [neg |-> FALSE, man |-> <<2685, 55, 3173, 4033, 23>>, exp |-> -55]>>,
    <<[neg |-> FALSE, man |-> <<2101, 20, 866, 500, 23>>, exp |-> -52],
       [neg |-> FALSE, man |-> <<2307, 2061, 1876, 3062, 31>>, exp |-> -53],
       [neg |-> FALSE, man |-> <<2783, 3792, 1882, 2053>>, exp |-> -50]>>,
    <<[neg |-> FALSE, man |-> <<3411, 2325, 4013, 260, 12>>, exp |-> -51],
       [neg |-> FALSE, man |-> <<511, 3874, 2783, 3966, 15>>, exp |-> -52],
       [neg |-> FALSE, man |-> <<1249, 3970, 646, 76, 4>>, exp |-> -54]>>,
    <<[neg |-> FALSE, man |-> <<1443, 2184, 3946, 579, 3>>, exp |-> -49],
       [neg |-> FALSE, man |-> <<1>>, exp |-> 0],
       [neg |-> FALSE, man |-> <<3079, 325, 1587, 2658, 17>>, exp |-> -106]>>,
    <<[neg |-> FALSE, man |-> <<4037, 2860, 2982, 282, 13>>, exp |-> -51],
       [neg |-> FALSE, man |-> <<511, 3874, 2783, 3966, 15>>, exp |-> -52],
       [neg |-> TRUE, man |-> <<891, 3593, 2587, 304, 16>>, exp |-> -56]>>,
    <<[neg |-> FALSE, man |-> <<1151, 2588, 3281, 3218, 6>>, exp |-> -50],
       [neg |-> FALSE, man |-> <<3201, 1030, 938, 3579, 15>>, exp |-> -52],
       [neg |-> TRUE, man |-> <<1785, 1669, 2775, 43, 4>>, exp |-> -53]>>,
    <<[neg |-> FALSE, man |-> <<567, 3396, 1951, 304, 14>>, exp |-> -51],
       [neg |-> FALSE, man |-> <<1279, 296, 726, 2935, 15>>, exp |-> -52],
       [neg |-> TRUE, man |-> <<1781, 3232, 2104, 767>>, exp |-> -48]>>,
    <<[neg |-> FALSE, man |-> <<2927, 1615, 1436, 2363, 14>>, exp |-> -51],
       [neg |-> FALSE, man |-> <<3809, 257, 541, 4074, 30>>, exp |-> -53],
       [neg |-> TRUE, man |-> <<121, 2588, 287, 4053, 1>>, exp |-> -51]>>,
    <<[neg |-> FALSE, man |-> <<1685, 491, 3187, 3624, 1>>, exp |-> -48],
       [neg |-> FALSE, man |-> <<1109, 308, 3854, 486>>, exp |-> -45],
       [neg |-> TRUE, man |-> <<1191, 2431, 1947, 3639, 9>>, exp |-> -53]>>,
    <<[neg |-> FALSE, man |-> <<3553, 2150, 405, 2385, 15>>, exp |-> -51],
       [neg |-> FALSE, man |-> <<1721, 1981, 3751, 1794, 7>>, exp |-> -51],
       [neg |-> TRUE, man |-> <<2329, 2698, 2632, 2293, 23>>, exp |-> -54]>>,
    <<[neg |-> FALSE, man |-> <<909, 185, 4041, 173, 8>>, exp |-> -50],
       [neg |-> FALSE, man |-> <<1419, 3521, 2012, 3909, 28>>, exp |-> -53],
       [neg |-> TRUE, man |-> <<413, 600, 1993, 1023, 27>>, exp |-> -54]>>,
    <<[neg |-> FALSE, man |-> <<83, 2686, 3470, 2406, 16>>, exp |-> -51],
       [neg |-> FALSE, man |-> <<2059, 3331, 1673, 2069, 3>>, exp |-> -50],
       [neg |-> TRUE, man |-> <<2645, 766, 855, 2900, 7>>, exp |-> -52]>>,
    <<[neg |-> FALSE, man |-> <<1635, 3298, 1762, 1116, 4>>, exp |-> -49],
       [neg |-> FALSE, man |-> <<3717, 1602, 3071, 75, 27>>, exp |-> -53],
       [neg |-> TRUE, man |-> <<2899, 386, 3644, 599, 17>>, exp |-> -53]>>,
    <<[neg |-> FALSE, man |-> <<1201, 3877, 609, 1631, 4>>, exp |-> -49],
       [neg |-> FALSE, man |-> <<3733, 1839, 3827, 966, 3>>, exp |-> -50],
       [neg |-> TRUE, man |-> <<2653, 1877, 772, 3314, 18>>, exp |-> -53]>>,
    <<[neg |-> FALSE, man |-> <<3069, 1440, 1924, 391, 18>>, exp |-> -51],
       [neg |-> FALSE, man |-> <<1525, 2779, 1457, 1344, 12>>, exp |-> -52],
       [neg |-> TRUE, man |-> <<111, 2772, 447, 407, 5>>, exp |-> -51]>>,
    <<[neg |-> FALSE, man |-> <<667, 1878, 704, 1225, 9>>, exp |-> -50],
       [neg |-> FALSE, man |-> <<2069, 3371, 1539, 1339, 23>>, exp |-> -53],
       [neg |-> TRUE, man |-> <<2053, 1092, 981, 1951, 5>>, exp |-> -51]>>,
    <<[neg |-> FALSE, man |-> <<3895, 3035, 2494, 2254, 9>>, exp |-> -50],
       [neg |-> FALSE, man |-> <<21, 274, 3925, 3708, 21>>, exp |-> -53],
       [neg |-> TRUE, man |-> <<3589, 3914, 3456, 3406, 5>>, exp |-> -51]>>,
    <<[neg |-> FALSE, man |-> <<1959, 195, 378, 2472, 19>>, exp |-> -51],
       [neg |-> FALSE, man |-> <<445, 2896, 1790, 1628, 20>>, exp |-> -53],
       [neg |-> TRUE, man |-> <<3049, 1462, 2915, 2688, 24>>, exp |-> -53]>>,
    <<[neg |-> FALSE, man |-> <<1927, 2894, 2427, 2573>>, exp |-> -46],
       [neg |-> FALSE, man |-> <<2655, 1877, 772, 3314, 18>>, exp |-> -53],
       [neg |-> TRUE, man |-> <<1191, 2431, 1947, 3639, 25>>, exp |-> -53]>>,
    <<[neg |-> FALSE, man |-> <<1347, 1627, 2990, 2359, 2>>, exp |-> -48],
       [neg |-> FALSE, man |-> <<2773, 96, 3983, 1173, 4>>, exp |-> -51],
       [neg |-> TRUE, man |-> <<2977, 3472, 3839, 3090, 6>>, exp |-> -51]>>,
    <<[neg |-> FALSE, man |-> <<849, 3046, 2927, 456, 21>>, exp |-> -51],
       [neg |-> FALSE, man |-> <<2391, 3066, 3420, 3408, 30>>, exp |-> -54],
       [neg |-> TRUE, man |-> <<87, 2076, 1102, 171, 28>>, exp |-> -53]>>,
    <<[neg |-> FALSE, man |-> <<3653, 632, 3254, 3305, 10>>, exp |-> -50],
       [neg |-> FALSE, man |-> <<3085, 1170, 4030, 3487>>, exp |-> -49],
       [neg |-> TRUE, man |-> <<2757, 1760, 3054, 1954, 14>>, exp |-> -52]>>,
    <<[neg |-> FALSE, man |-> <<1475, 3581, 1896, 478, 22>>, exp |-> -51],
       [neg |-> FALSE, man |-> <<2631, 674, 1682, 3645, 5>>, exp |-> -52],
       [neg |-> TRUE, man |-> <<1721, 1981, 3751, 1794, 7>>, exp |-> -51]>>,
    <<[neg |-> FALSE, man |-> <<959, 1474, 1369, 2682, 5>>, exp |-> -49],
       [neg |-> FALSE, man |-> <<2385, 766, 3895, 3182, 19>>, exp |-> -54],
       [neg |-> TRUE, man |-> <<1279, 1093, 3603, 1776, 30>>, exp |-> -53]>>,
    <<[neg |-> FALSE, man |-> <<2101, 20, 866, 500, 23>>, exp |-> -51],
       [neg |-> FALSE, man |-> <<1943, 448, 506, 3409, 31>>, exp |-> -55],
       [neg |-> TRUE, man |-> <<247, 3720, 1296, 3967>>, exp |-> -48]>>,
    <<[neg |-> FALSE, man |-> <<365, 2336, 350, 2559, 23>>, exp |-> -51],
       [neg |-> FALSE, man |-> <<2695, 55, 3173, 4033, 23>>, exp |-> -55],
       [neg |-> TRUE, man |-> <<1279, 296, 726, 2935, 15>>, exp |-> -52]>>,
    <<[neg |-> FALSE, man |-> <<3411, 2325, 4013, 260, 12>>, exp |-> -50],
       [neg |-> FALSE, man |-> <<3573, 3338, 1454, 87, 8>>, exp |-> -54],
       [neg |-> TRUE, man |-> <<3201, 1030, 938, 3579, 15>>, exp |-> -52]>>,
    <<[neg |-> FALSE, man |-> <<991, 2871, 3415, 2580, 24>>, exp |-> -51],
       [neg |-> FALSE, man |-> <<625, 1985, 323, 38, 2>>, exp |-> -53],
       [neg |-> TRUE, man |-> <<511, 3874, 2783, 3966, 15>>, exp |-> -52]>>,
    <<[neg |-> FALSE, man |-> <<1443, 2184, 3946, 579, 3>>, exp |-> -48],
       [neg |-> FALSE, man |-> <<3079, 325, 1587, 2658, 17>>, exp |-> -105],
       [neg |-> TRUE, man |-> <<1>>, exp |-> 0]>>,
    <<[neg |-> FALSE, man |-> <<745, 2734, 3396, 2782, 14>>, exp |-> -59],
       [neg |-> FALSE, man |-> <<705, 3607, 1287, 2782, 14>>, exp |-> -59],
       [neg |-> FALSE, man |-> <<3343, 2108, 1296, 4094, 15>>, exp |-> -52]>>,
    <<[neg |-> FALSE, man |-> <<2309, 1641, 599, 866, 13>>, exp |-> -60],
       [neg |-> FALSE, man |-> <<3091, 602, 430, 1732, 26>>, exp |-> -61],
       [neg |-> FALSE, man |-> <<1095, 2701, 2699, 4095, 15>>, exp |-> -52]>>,
    <<[neg |-> FALSE, man |-> <<3953, 1430, 1929, 2961, 15>>, exp |-> -50],
       [neg |-> TRUE, man |-> <<2717, 3867, 15, 1459, 11>>, exp |-> -52],
       [neg |-> TRUE, man |-> <<371, 1927, 1965, 2220, 22>>, exp |-> -53]>>,
    <<[neg |-> FALSE, man |-> <<2515, 2663, 1805, 3496, 7>>, exp |-> -49],
       [neg |-> TRUE, man |-> <<2287, 852, 3237, 2895>>, exp |-> -48],
       [neg |-> TRUE, man |-> <<3065, 588, 2074, 2586, 22>>, exp |-> -53]>> }

\* Math.sin(x), Math.cos(x)
MathSin(x) == (CHOOSE r \in TrigTable : r[1] = x)[2]

MathCos(x) == (CHOOSE r \in TrigTable : r[1] = x)[3]


(***************************************************************************)
(* Data: UIMissionParameters, UIMissionResults, the remote contract.       *)
(***************************************************************************)
PropulsionTypes == {"chemical", "ion", "solar-sail"}

PayloadSizes == {"small", "medium", "large"}

\* values of the datetime-local input; the first is the initial one
InitialLaunchDate == "2025-10-30T10:00"

\* the value of the input once its field is cleared
ClearedLaunchDate == ""

LaunchDates == {InitialLaunchDate, "2026-06-15T12:00", ClearedLaunchDate}

\* new Date(launchDate): the local date and time the string denotes, as whole days
\* after 2025-10-30 and minutes after midnight; None for an Invalid Date
DateParse(launchDate) ==
  CASE launchDate = "2025-10-30T10:00" -> <<[days |-> 0, minutes |-> 600]>>
    [] launchDate = "2026-06-15T12:00" -> <<[days |-> 228, minutes |-> 720]>>
    [] OTHER -> << >>

UIMissionParameters ==
  [launchDate : LaunchDates, propulsionType : PropulsionTypes, payloadSize : PayloadSizes]

Null == "null"

\* a template literal: its fixed text, the strings and the formatted numbers put in it
LogLine(text, strs, nums) == [text |-> text, strs |-> strs, nums |-> nums]

\* useState initial value of results, and the value resetMission stores
DefaultResults ==
  [travelTime |-> Zero, deltaV |-> Zero, successProbability |-> Zero,
   missionLog |-> << >>, fuelCost |-> Zero, missionStatus |-> "pending"]

\* apiParams: the UI parameters in the API's field names
ToApiParams(parameters) ==
  [launch_date     |-> parameters.launchDate,
   propulsion_type |-> parameters.propulsionType,
   payload_size    |-> parameters.payloadSize]

\* FromApiResults with fuelCost taken from delta_v
FromApiResultsFuelFromDeltaV(apiResults) ==
  [travelTime         |-> apiResults.travel_time,
   deltaV             |-> apiResults.delta_v,
   successProbability |-> apiResults.success_probability,
   missionLog         |-> apiResults.mission_log,
   fuelCost           |-> apiResults.delta_v,
   missionStatus      |-> apiResults.mission_status]

\* newResults of the try branch: the API's fields under the UI's names
FromApiResults(apiResults) ==
  [travelTime         |-> apiResults.travel_time,
   deltaV             |-> apiResults.delta_v,
   successProbability |-> apiResults.success_probability,
   missionLog         |-> apiResults.mission_log,
   fuelCost           |-> apiResults.fuel_cost,
   missionStatus      |-> apiResults.mission_status]

(***************************************************************************)
(* The fallback calculation of simulateMission's catch branch.             *)
(***************************************************************************)
baseDeltaV == Dec(15, 1)

baseTravelTime == Dec(5, 1)

\* the first switch: multipliers by propulsion type (no case matching: the initial values)
PropulsionSwitch(propulsionType) ==
  CASE propulsionType = "chemical" ->
         [deltaVMultiplier |-> Dec(12, 10), timeMultiplier |-> Dec(8, 10),
          successBase |-> Dec(6, 10)]
    [] propulsionType = "ion" ->
         [deltaVMultiplier |-> Dec(8, 10), timeMultiplier |-> Dec(12, 10),
          successBase |-> Dec(8, 10)]
    [] propulsionType = "solar-sail" ->
         [deltaVMultiplier |-> Dec(3, 10), timeMultiplier |-> Dec(2, 1),
          successBase |-> Dec(5, 10)]
    [] OTHER ->
         [deltaVMultiplier |-> Dec(1, 1), timeMultiplier |-> Dec(1, 1),
          successBase |-> Dec(7, 10)]

\* PayloadSwitch with the 'large' case leaving the time multiplier alone
PayloadSwitchLargeKeepsTime(m, payloadSize) ==
  CASE payloadSize = "small" ->
         [deltaVMultiplier |-> FMul(m.deltaVMultiplier, Dec(9, 10)),
          timeMultiplier   |-> FMul(m.timeMultiplier, Dec(9, 10)),
          successBase      |-> FAdd(m.successBase, Dec(1, 10))]
    [] payloadSize = "large" ->
         [deltaVMultiplier |-> FMul(m.deltaVMultiplier, Dec(13, 10)),
          timeMultiplier   |-> m.timeMultiplier,
          successBase      |-> FSub(m.successBase, Dec(1, 10))]
    [] OTHER -> m

\* the second switch: the payload size adjusts the three values in place
PayloadSwitch(m, payloadSize) ==
  CASE payloadSize = "small" ->
         [deltaVMultiplier |-> FMul(m.deltaVMultiplier, Dec(9, 10)),
          timeMultiplier   |-> FMul(m.timeMultiplier, Dec(9, 10)),
          successBase      |-> FAdd(m.successBase, Dec(1, 10))]
    [] payloadSize = "large" ->
         [deltaVMultiplier |-> FMul(m.deltaVMultiplier, Dec(13, 10)),
          timeMultiplier   |-> FMul(m.timeMultiplier, Dec(13, 10)),
          successBase      |-> FSub(m.successBase, Dec(1, 10))]
    [] OTHER -> m

\* FinalSuccess with the upper limit 0.85
FinalSuccessUpTo85(successBase) == FMax(Dec(1, 10), FMin(Dec(85, 100), successBase))

\* finalSuccess = Math.max(0.1, Math.min(0.95, successBase))
FinalSuccess(successBase) == FMax(Dec(1, 10), FMin(Dec(95, 100), successBase))

\* FallbackStatus with >= for >
FallbackStatusAtLeast(finalSuccess) ==
  IF FLeq(Dec(7, 10), finalSuccess) THEN "success" ELSE "warning"

\* missionStatus: finalSuccess > 0.7 ? 'success' : 'warning'
FallbackStatus(finalSuccess) ==
  IF FGreater(finalSuccess, Dec(7, 10)) THEN "success" ELSE "warning"

\* FallbackFuelCost with the factor 0.08
FallbackFuelCostWrongFactor(finalDeltaV) == FMul(finalDeltaV, Dec(8, 100))

\* fuelCost: finalDeltaV * 0.8
FallbackFuelCost(finalDeltaV) == FMul(finalDeltaV, Dec(8, 10))

\* FallbackLog with the travel time line before the deltaV line
FallbackLogTimeFirst(propulsionType, payloadSize, finalDeltaV, finalTravelTime, finalSuccess) ==
  << LogLine("Offline mode - API unavailable", << >>, << >>),
     LogLine("Mission parameters: {} propulsion, {} payload",
             <<propulsionType, payloadSize>>, << >>),
     LogLine("Estimated travel time: {} years", << >>,
             <<ToFixed(finalTravelTime, 1)>>),
     LogLine("Calculated deltaV requirement: {} km/s", << >>,
             <<ToFixed(finalDeltaV, 1)>>),
     LogLine("Mission success probability: {}%", << >>,
             <<ToFixed(FMul(finalSuccess, Dec(100, 1)), 0)>>) >>

\* missionLog of the fallback results
FallbackLog(propulsionType, payloadSize, finalDeltaV, finalTravelTime, finalSuccess) ==
  << LogLine("Offline mode - API unavailable", << >>, << >>),
     LogLine("Mission parameters: {} propulsion, {} payload",
             <<propulsionType, payloadSize>>, << >>),
     LogLine("Calculated deltaV requirement: {} km/s", << >>,
             <<ToFixed(finalDeltaV, 1)>>),
     LogLine("Estimated travel time: {} years", << >>,
             <<ToFixed(finalTravelTime, 1)>>),
     LogLine("Mission success probability: {}%", << >>,
             <<ToFixed(FMul(finalSuccess, Dec(100, 1)), 0)>>) >>

\* newResults of the catch branch, from the propulsion type and payload size
ComputeFallback(propulsionType, payloadSize) ==
  LET m               == PayloadSwitch(PropulsionSwitch(propulsionType), payloadSize)
      finalDeltaV     == FMul(baseDeltaV, m.deltaVMultiplier)
      finalTravelTime == FMul(baseTravelTime, m.timeMultiplier)
      finalSuccess    == FinalSuccess(m.successBase)
  IN  [travelTime         |-> finalTravelTime,
       deltaV             |-> finalDeltaV,
       successProbability |-> finalSuccess,
       missionLog         |-> FallbackLog(propulsionType, payloadSize, finalDeltaV,
                                          finalTravelTime, finalSuccess),
       fuelCost           |-> FallbackFuelCost(finalDeltaV),
       missionStatus      |-> FallbackStatus(finalSuccess)]

\* ComputeFallback over the values the two selectors can hold, computed once
FallbackTable ==
  [p \in PropulsionTypes, s \in PayloadSizes |-> ComputeFallback(p, s)]

\* the catch branch's results for the parameters its closure holds
FallbackResults(parameters) ==
  FallbackTable[parameters.propulsionType, parameters.payloadSize]


(***************************************************************************)
(* The remote estimation call: missionAPI.simulate over axios.             *)
(***************************************************************************)
\* response bodies the service may send: numbers in and out of the documented ranges
RemoteBody(travel_time, delta_v, success_probability, fuel_cost, mission_status) ==
  [travel_time         |-> travel_time,
   delta_v             |-> delta_v,
   success_probability |-> success_probability,
   mission_log         |-> <<LogLine("Trajectory computed by the remote service",
                                     << >>, << >>)>>,
   fuel_cost           |-> fuel_cost,
   mission_status      |-> mission_status]

RemoteBodies ==
  { RemoteBody(Dec(45, 10), Dec(125, 10), Dec(75, 100), Dec(975, 100), "success"),
    RemoteBody(Dec(6, 1), Dec(14, 1), Dec(15, 10), Dec(11, 1), "warning"),
    RemoteBody(Dec(3, 1), FNeg(Dec(1, 1)), Dec(25, 100), FNeg(Dec(2, 1)), "failure") }

\* an optional value: << >> for undefined, <<v>> for the value v
None == << >>

Some(v) == <<v>>

\* what the transport can do with one request: an HTTP response (status and body, the
\* body possibly missing), no connection, or no answer in time
Transports ==
  [kind : {"response"}, status : {200}, data : {Some(b) : b \in RemoteBodies} \cup {None}]
    \cup [kind : {"response"}, status : {500}, data : {None}]
    \cup [kind : {"network", "timeout"}, status : {0}, data : {None}]

\* api.post rejects unless the status is 2xx; missionAPI.simulate returns response.data
ApiSimulate(transport) ==
  IF transport.kind = "response" /\ transport.status >= 200 /\ transport.status < 300
    THEN [ok |-> TRUE, value |-> transport.data, error |-> Null]
    ELSE [ok |-> FALSE, value |-> None,
          error |-> IF transport.kind = "response" THEN "status" ELSE transport.kind]

\* the outcome of the try block: reading a field of a missing body throws a TypeError
TryBlock(reply) ==
  IF ~reply.ok THEN [thrown |-> TRUE, error |-> reply.error, newResults |-> None]
  ELSE IF reply.value = None
    THEN [thrown |-> TRUE, error |-> "TypeError", newResults |-> None]
  ELSE [thrown |-> FALSE, error |-> Null,
        newResults |-> Some(FromApiResults(reply.value[1]))]

\* a catch that handles the transport's errors only and rethrows the rest
CatchesTransportErrorsOnly(error) == error \in {"network", "timeout", "status"}

\* catch (error): the clause has no condition, it takes every thrown value
Catches(error) == TRUE

OfflineMessage == "Failed to connect to simulation API. Using offline mode..."

(***************************************************************************)
(* State of the App component.                                             *)
(***************************************************************************)
VARIABLES
  parameters,    \* useState: UIMissionParameters
  results,       \* useState: UIMissionResults
  isSimulating,  \* useState: a run is in flight
  isAnimating,   \* useState: a run has settled since the last start or reset
  apiError,      \* useState: the offline-mode message, or Null
  calls,         \* simulateMission invocations suspended at the await: the
                 \* parameters of their closure, the request, the transport's answer,
                 \* whether resetMission has run since the invocation started
  uncaught,      \* an exception has escaped simulateMission
  computedBy,    \* which setResults call wrote results: "default" (useState,
                 \* resetMission), "remote" (try) or "fallback" (catch)
  last,          \* the last operation: its name, the run state and the offline
                 \* flag it started from, the call it resumed
  firstFailed,   \* where failed runs are compared: the first run whose catch
                 \* branch ran, with the results it stored
  timezoneOffset,\* the host's Date.prototype.getTimezoneOffset(), in minutes
  positionCalls, \* the getTimeBasedPositions calls made so far: launchDate, result
  lineProps,     \* the props of a TrajectoryLine; None while none is rendered
  points         \* getTrajectoryPoints() of its last render; None before the first

\* SpaceScene and TrajectoryLine, which the handlers of App do not touch
sceneVars == <<timezoneOffset, positionCalls, lineProps, points>>

appVars ==
  <<parameters, results, isSimulating, isAnimating, apiError, calls, uncaught,
    computedBy, last, firstFailed>>

vars == <<appVars, sceneVars>>

\* most invocations suspended at once that the model follows
MaxCalls == 2

Pending == [kind |-> "pending", status |-> 0, data |-> None]

\* Idle / Running / Settled, read off isSimulating and isAnimating
RunState ==
  IF isSimulating THEN "Running" ELSE IF isAnimating THEN "Settled" ELSE "Idle"

\* the props App renders SpaceScene with
SpaceSceneProps ==
  [missionResults |-> results, isAnimating |-> isAnimating,
   propulsionType |-> parameters.propulsionType, launchDate |-> parameters.launchDate]

\* what App renders from results: the props of MetricsPanel and of MissionLog
Exposed == [results |-> results, logs |-> results.missionLog]

\* the record of an operation performed in the current state; call is None or
\* Some(c); stores lists the setResults calls the operation made, none so far;
\* over tells which setResults call had written the results it found
Op(name, call) ==
  [op |-> name, from |-> RunState, degraded |-> apiError # Null, call |-> call,
   stores |-> << >>, over |-> computedBy]

\* the operation made the setResults calls listed
Storing(op, stores) == [op EXCEPT !.stores = stores]

\* the scene components are followed on their own, under SceneSpec
SceneIdle ==
  /\ timezoneOffset = 0
  /\ positionCalls = << >>
  /\ lineProps = None
  /\ points = None

\* failed runs are not compared / are compared, none seen yet
NotCompared == [recording |-> FALSE, run |-> None]

Compared == [recording |-> TRUE, run |-> None]

\* firstFailed after a run of call whose catch branch stored newResults
Recorded(call, newResults) ==
  IF firstFailed.recording /\ firstFailed.run = None
    THEN [firstFailed EXCEPT
            !.run = Some([call |-> call, over |-> computedBy, results |-> newResults])]
    ELSE firstFailed

\* the useState initial values
HooksInit ==
  /\ parameters = [launchDate |-> InitialLaunchDate, propulsionType |-> "ion",
                   payloadSize |-> "medium"]
  /\ results = DefaultResults
  /\ isSimulating = FALSE
  /\ isAnimating = FALSE
  /\ apiError = Null
  /\ calls = << >>
  /\ uncaught = FALSE
  /\ computedBy = "default"
  /\ last = [op |-> "init", from |-> "Idle", degraded |-> FALSE, call |-> None,
             stores |-> << >>, over |-> "default"]

AppInit == HooksInit /\ firstFailed = NotCompared

Init == AppInit /\ SceneIdle

(***************************************************************************)
(* SpaceScene: getTimeBasedPositions.                                      *)
(***************************************************************************)
\* the numeric literals of the two functions
Literal ==
  [half |-> Dec(5, 10), two |-> Dec(2, 1), three |-> Dec(3, 1),
   threeTenths |-> Dec(3, 10), sevenTenths |-> Dec(7, 10),
   oneAndHalf |-> Dec(15, 10), perihelionDistance |-> Dec(14, 10)]

\* getTimezoneOffset() of the hosts followed: UTC and UTC+05:30
TimezoneOffsets == {0, -330}

\* getTimeBasedPositions with a position that drifts with every call made
GetTimeBasedPositionsDrifting(launchDate, offset) ==
  LET drift == FInt(Len(positionCalls))
  IN  [earthPosition      |-> <<FAdd(FNeg(Literal.three), drift), Zero, Zero>>,
       atlasPosition      |-> <<FAdd(Literal.three, drift), Literal.three, Zero>>,
       currentDistance    |-> Literal.perihelionDistance,
       timeFromPerihelion |-> Zero]

\* getTimeBasedPositions() for the launchDate prop, on a host with the given offset;
\* launch is local time, the reference date '2025-10-30' is UTC midnight
GetTimeBasedPositions(launchDate, offset) ==
  LET launch == DateParse(launchDate)
  IN  IF launch = << >>
        THEN [earthPosition      |-> <<NaN, NaN, Zero>>,
              atlasPosition      |-> <<NaN, NaN, Zero>>,
              currentDistance    |-> NaN,
              timeFromPerihelion |-> NaN]
        ELSE
          LET minutes == launch[1].days * 1440 + launch[1].minutes + offset
              \* launch.getTime() - optimalDate.getTime(), an exact integer
              millis  == Canon(minutes < 0,
                               NatMul(NatOfInt(IF minutes < 0 THEN -minutes ELSE minutes),
                                      NatOfInt(60000)), 0)
              \* / (1000 * 60 * 60 * 24), which is 84375 * 2^10
              daysDiff == FDivSmall(millis, 84375, 10)
              \* / 365.25, which is 1461 * 2^-2
              years    == FDivSmall(daysDiff, 1461, -2)
              earthOrbitalPhase  == FMul(FMul(years, Literal.two), Pi)
              timeFromPerihelion == years
              currentDistance    ==
                FAdd(Literal.perihelionDistance, FMul(FAbs(timeFromPerihelion), Literal.two))
              scaledDistance     == FMul(currentDistance, Literal.two)
          IN  [earthPosition |->
                 <<FAdd(FNeg(Literal.three),
                        FMul(Literal.threeTenths, MathCos(earthOrbitalPhase))),
                   FMul(Literal.threeTenths, MathSin(earthOrbitalPhase)),
                   Zero>>,
               atlasPosition |->
                 <<scaledDistance,
                   FAdd(Literal.three, FMul(timeFromPerihelion, Literal.half)),
                   Zero>>,
               currentDistance    |-> currentDistance,
               timeFromPerihelion |-> timeFromPerihelion]

(***************************************************************************)
(* TrajectoryLine: getTrajectoryPoints.                                    *)
(***************************************************************************)
segments == 50

\* t = i / segments for the loop's i
SegmentFraction == [i \in 0..segments |-> Dec(i, segments)]

\* a + (b - a) * t
Along(a, b, t) == FAdd(a, FMul(FSub(b, a), t))

\* Math.pow(1-t, 2) * p0 + 2 * (1-t) * t * p1 + Math.pow(t, 2) * p2
Quadratic(p0, p1, p2, t) ==
  LET u == FSub(One, t)
  IN  FAdd(FAdd(FMul(FPow(u, 2), p0),
                FMul(FMul(FMul(Literal.two, u), t), p1)),
           FMul(FPow(t, 2), p2))

\* Math.pow(1-t, 3) * p0 + 3 * Math.pow(1-t, 2) * t * p1
\*   + 3 * (1-t) * Math.pow(t, 2) * p2 + Math.pow(t, 3) * p3
Cubic(p0, p1, p2, p3, t) ==
  LET u == FSub(One, t)
  IN  FAdd(FAdd(FAdd(FMul(FPow(u, 3), p0),
                     FMul(FMul(FMul(Literal.three, FPow(u, 2)), t), p1)),
                FMul(FMul(FMul(Literal.three, u), FPow(t, 2)), p2)),
           FMul(FPow(t, 3), p3))

\* the loop body with the chemical case's curve for every propulsionType
TrajectoryPointAlwaysChemical(earthPosition, atlasPosition, propulsionType, i) ==
  <<Along(earthPosition[1], atlasPosition[1], SegmentFraction[i]),
    FAdd(Along(earthPosition[2], atlasPosition[2], SegmentFraction[i]),
         FMul(MathSin(FMul(SegmentFraction[i], Pi)), Literal.half)),
    Along(earthPosition[3], atlasPosition[3], SegmentFraction[i])>>

\* the body of the loop: the point [x, y, z] pushed for i
TrajectoryPoint(earthPosition, atlasPosition, propulsionType, i) ==
  LET earthX == earthPosition[1]
      earthY == earthPosition[2]
      earthZ == earthPosition[3]
      atlasX == atlasPosition[1]
      atlasY == atlasPosition[2]
      atlasZ == atlasPosition[3]
      t      == SegmentFraction[i]
      z      == Along(earthZ, atlasZ, t)
  IN  CASE propulsionType = "chemical" ->
             <<Along(earthX, atlasX, t),
               FAdd(Along(earthY, atlasY, t), FMul(MathSin(FMul(t, Pi)), Literal.half)),
               z>>
        [] propulsionType = "ion" ->
             LET controlX == FDivSmall(FAdd(earthX, atlasX), 2, 0)
                 controlY == FAdd(FMax(earthY, atlasY), Literal.oneAndHalf)
             IN  <<Quadratic(earthX, controlX, atlasX, t),
                   Quadratic(earthY, controlY, atlasY, t),
                   z>>
        [] propulsionType = "solar-sail" ->
             LET sailControl1X == FAdd(earthX, FMul(FSub(atlasX, earthX), Literal.threeTenths))
                 sailControl1Y == FAdd(earthY, Literal.three)
                 sailControl2X == FAdd(earthX, FMul(FSub(atlasX, earthX), Literal.sevenTenths))
                 sailControl2Y == FAdd(earthY, Literal.two)
             IN  <<Cubic(earthX, sailControl1X, sailControl2X, atlasX, t),
                   Cubic(earthY, sailControl1Y, sailControl2Y, atlasY, t),
                   z>>
        [] OTHER ->
             <<Along(earthX, atlasX, t), Along(earthY, atlasY, t), z>>

\* getTrajectoryPoints with a loop that stops at i < segments
GetTrajectoryPointsOpen(earthPosition, atlasPosition, propulsionType) ==
  [k \in 1..segments |->
     TrajectoryPoint(earthPosition, atlasPosition, propulsionType, k - 1)]

\* getTrajectoryPoints(): points[i + 1] is the point pushed for i = 0 .. segments
GetTrajectoryPoints(earthPosition, atlasPosition, propulsionType) ==
  [k \in 1..(segments + 1) |->
     TrajectoryPoint(earthPosition, atlasPosition, propulsionType, k - 1)]

(***************************************************************************)
(* The two functions on their own: SceneSpec renders either a SpaceScene   *)
(* with launchDate props (lineProps = None) or a TrajectoryLine with the   *)
(* props drawn for it, the App component left in its initial state.        *)
(***************************************************************************)
\* most getTimeBasedPositions calls that the model follows
MaxPositionCalls == 3

\* propulsionType props: the three the selector offers and one no case matches
LineVariants == PropulsionTypes \cup {"nuclear"}

\* what getTimeBasedPositions returns on a UTC host for the initial launch date
InitialPositions == GetTimeBasedPositions(InitialLaunchDate, 0)

\* two positions off the z = 0 plane
LowPosition == <<FNeg(Literal.three), Dec(25, 100), FNeg(One)>>

HighPosition == <<Dec(35, 10), Literal.three, One>>

\* earthPosition / atlasPosition props: the pair SpaceScene passes down, a pair
\* off the z = 0 plane, and a pair with both positions the same
LinePositions ==
  { <<InitialPositions.earthPosition, InitialPositions.atlasPosition>>,
    <<LowPosition, HighPosition>>,
    <<HighPosition, HighPosition>> }

\* the props a TrajectoryLine is rendered with
LineInputs ==
  { [earthPosition |-> p[1], atlasPosition |-> p[2], propulsionType |-> v] :
      p \in LinePositions, v \in LineVariants }

SceneInit ==
  /\ AppInit
  /\ timezoneOffset \in TimezoneOffsets
  /\ positionCalls = << >>
  /\ lineProps \in {None} \cup {Some(props) : props \in LineInputs}
  /\ lineProps # None => timezoneOffset = 0
  /\ points = None

\* SpaceScene renders with the launchDate prop v: it calls getTimeBasedPositions
RenderSpaceScene(v) ==
  /\ lineProps = None
  /\ Len(positionCalls) < MaxPositionCalls
  /\ positionCalls' =
       Append(positionCalls,
              [launchDate |-> v, result |-> GetTimeBasedPositions(v, timezoneOffset)])
  /\ UNCHANGED <<appVars, timezoneOffset, lineProps, points>>

\* TrajectoryLine renders with its props: it calls getTrajectoryPoints
RenderTrajectoryLine ==
  /\ lineProps # None
  /\ points' = Some(GetTrajectoryPoints(lineProps[1].earthPosition,
                                        lineProps[1].atlasPosition,
                                        lineProps[1].propulsionType))
  /\ UNCHANGED <<appVars, timezoneOffset, positionCalls, lineProps>>

SceneNext ==
  \/ \E v \in LaunchDates : RenderSpaceScene(v)
  \/ RenderTrajectoryLine

SceneSpec == SceneInit /\ [][SceneNext]_vars

(***************************************************************************)
(* ControlPanel: the inputs call onParametersChange = setParameters.       *)
(***************************************************************************)
SetLaunchDate(v) ==
  /\ parameters' = [parameters EXCEPT !.launchDate = v]
  /\ last' = Op("setParameters", None)
  /\ UNCHANGED sceneVars
  /\ UNCHANGED firstFailed
  /\ UNCHANGED <<results, isSimulating, isAnimating, apiError, calls, uncaught,
                 computedBy>>

\* a propulsion button that also clears the results and the animation flag
SetPropulsionTypeClearing(v) ==
  /\ parameters' = [parameters EXCEPT !.propulsionType = v]
  /\ results' = DefaultResults
  /\ computedBy' = "default"
  /\ isAnimating' = FALSE
  /\ last' = Storing(Op("setParameters", None), <<"default">>)
  /\ UNCHANGED sceneVars
  /\ UNCHANGED firstFailed
  /\ UNCHANGED <<isSimulating, apiError, calls, uncaught>>

SetPropulsionType(v) ==
  /\ parameters' = [parameters EXCEPT !.propulsionType = v]
  /\ last' = Op("setParameters", None)
  /\ UNCHANGED sceneVars
  /\ UNCHANGED firstFailed
  /\ UNCHANGED <<results, isSimulating, isAnimating, apiError, calls, uncaught,
                 computedBy>>

SetPayloadSize(v) ==
  /\ parameters' = [parameters EXCEPT !.payloadSize = v]
  /\ last' = Op("setParameters", None)
  /\ UNCHANGED sceneVars
  /\ UNCHANGED firstFailed
  /\ UNCHANGED <<results, isSimulating, isAnimating, apiError, calls, uncaught,
                 computedBy>>

\* a simulate button that is never disabled
SimulateNeverDisabled == FALSE

\* the simulate button: disabled={isSimulating}
SimulateDisabled == isSimulating

(***************************************************************************)
(* simulateMission, up to the await: the flags, apiParams, the request.    *)
(***************************************************************************)
\* simulateMission without setApiError(null)
SimulateMissionKeepsApiError ==
  /\ ~SimulateDisabled
  /\ Len(calls) < MaxCalls
  /\ isSimulating' = TRUE
  /\ isAnimating' = FALSE
  /\ calls' = Append(calls, [closure   |-> parameters,
                             request   |-> ToApiParams(parameters),
                             transport |-> Pending,
                             cleared   |-> FALSE])
  /\ last' = Op("simulate", None)
  /\ UNCHANGED sceneVars
  /\ UNCHANGED firstFailed
  /\ UNCHANGED <<parameters, results, apiError, uncaught, computedBy>>

\* simulateMission that also stores the default results when it starts
SimulateMissionClearingResults ==
  /\ ~SimulateDisabled
  /\ Len(calls) < MaxCalls
  /\ isSimulating' = TRUE
  /\ isAnimating' = FALSE
  /\ apiError' = Null
  /\ results' = DefaultResults
  /\ computedBy' = "default"
  /\ calls' = Append(calls, [closure   |-> parameters,
                             request   |-> ToApiParams(parameters),
                             transport |-> Pending,
                             cleared   |-> FALSE])
  /\ last' = Storing(Op("simulate", None), <<"default">>)
  /\ UNCHANGED sceneVars
  /\ UNCHANGED firstFailed
  /\ UNCHANGED <<parameters, uncaught>>

SimulateMission ==
  /\ ~SimulateDisabled
  /\ Len(calls) < MaxCalls
  /\ isSimulating' = TRUE
  /\ isAnimating' = FALSE
  /\ apiError' = Null
  /\ calls' = Append(calls, [closure   |-> parameters,
                             request   |-> ToApiParams(parameters),
                             transport |-> Pending,
                             cleared   |-> FALSE])
  /\ last' = Op("simulate", None)
  /\ UNCHANGED sceneVars
  /\ UNCHANGED firstFailed
  /\ UNCHANGED <<parameters, results, uncaught, computedBy>>

\* the transport answers the request of call i (or fails to)
Respond(i, t) ==
  /\ calls[i].transport = Pending
  /\ calls' = [calls EXCEPT ![i].transport = t]
  /\ last' = Op("respond", None)
  /\ UNCHANGED sceneVars
  /\ UNCHANGED firstFailed
  /\ UNCHANGED <<parameters, results, isSimulating, isAnimating, apiError, uncaught,
                 computedBy>>

\* simulateMission without its finally block: isSimulating stays set
WithoutFinally == TRUE

\* finally { setIsSimulating(false) }: the value isSimulating gets
Finally == FALSE

\* Resume with the catch branch reading the component's current parameters
\* rather than those of the invocation's closure
ResumeWithCurrentParameters(i) ==
  LET call == calls[i]
      try  == TryBlock(ApiSimulate(call.transport))
  IN  /\ call.transport # Pending
      /\ calls' = SubSeq(calls, 1, i - 1) \o SubSeq(calls, i + 1, Len(calls))
      /\ IF ~try.thrown
           THEN /\ results' = try.newResults[1]
                /\ computedBy' = "remote"
                /\ isAnimating' = TRUE
                /\ UNCHANGED <<apiError, uncaught>>
           ELSE /\ apiError' = OfflineMessage
                /\ results' = FallbackResults(parameters)
                /\ computedBy' = "fallback"
                /\ isAnimating' = TRUE
                /\ UNCHANGED uncaught
      /\ isSimulating' = Finally
      /\ last' = Storing(Op("resume", Some(call)),
                         IF try.thrown THEN <<"fallback">> ELSE <<"remote">>)
      /\ UNCHANGED sceneVars
      /\ UNCHANGED firstFailed
      /\ UNCHANGED parameters

\* Resume with a try block that throws after its setResults: the catch branch
\* stores the fallback results on top of the remote ones
ResumeStoringTwice(i) ==
  LET call == calls[i]
      try  == TryBlock(ApiSimulate(call.transport))
  IN  /\ call.transport # Pending
      /\ calls' = SubSeq(calls, 1, i - 1) \o SubSeq(calls, i + 1, Len(calls))
      /\ apiError' = OfflineMessage
      /\ results' = FallbackResults(call.closure)
      /\ computedBy' = "fallback"
      /\ isAnimating' = TRUE
      /\ isSimulating' = Finally
      /\ last' = Storing(Op("resume", Some(call)),
                         IF try.thrown THEN <<"fallback">> ELSE <<"remote", "fallback">>)
      /\ UNCHANGED sceneVars
      /\ UNCHANGED firstFailed
      /\ UNCHANGED <<parameters, uncaught>>

\* Resume with a catch branch that keeps the fuelCost it finds in results
ResumeKeepingFuelCost(i) ==
  LET call == calls[i]
      try  == TryBlock(ApiSimulate(call.transport))
      kept == [FallbackResults(call.closure) EXCEPT !.fuelCost = results.fuelCost]
  IN  /\ call.transport # Pending
      /\ calls' = SubSeq(calls, 1, i - 1) \o SubSeq(calls, i + 1, Len(calls))
      /\ IF ~try.thrown
           THEN /\ results' = try.newResults[1]
                /\ computedBy' = "remote"
                /\ UNCHANGED <<apiError, firstFailed>>
           ELSE /\ apiError' = OfflineMessage
                /\ results' = kept
                /\ computedBy' = "fallback"
                /\ firstFailed' = Recorded(call, kept)
      /\ isAnimating' = TRUE
      /\ isSimulating' = Finally
      /\ last' = Storing(Op("resume", Some(call)),
                         IF try.thrown THEN <<"fallback">> ELSE <<"remote">>)
      /\ UNCHANGED sceneVars
      /\ UNCHANGED <<parameters, uncaught>>

\* simulateMission after the await: the rest of try, or catch, then finally
Resume(i) ==
  LET call == calls[i]
      try  == TryBlock(ApiSimulate(call.transport))
  IN  /\ call.transport # Pending
      /\ calls' = SubSeq(calls, 1, i - 1) \o SubSeq(calls, i + 1, Len(calls))
      /\ IF ~try.thrown
           THEN /\ results' = try.newResults[1]
                /\ computedBy' = "remote"
                /\ isAnimating' = TRUE
                /\ UNCHANGED <<apiError, uncaught, firstFailed>>
           ELSE IF Catches(try.error)
             THEN /\ apiError' = OfflineMessage
                  /\ results' = FallbackResults(call.closure)
                  /\ computedBy' = "fallback"
                  /\ isAnimating' = TRUE
                  /\ firstFailed' = Recorded(call, FallbackResults(call.closure))
                  /\ UNCHANGED uncaught
             ELSE /\ uncaught' = TRUE
                  /\ UNCHANGED <<results, computedBy, isAnimating, apiError,
                                 firstFailed>>
      /\ isSimulating' = Finally
      /\ last' = Storing(Op("resume", Some(call)),
                         IF ~try.thrown THEN <<"remote">>
                         ELSE IF Catches(try.error) THEN <<"fallback">> ELSE << >>)
      /\ UNCHANGED sceneVars
      /\ UNCHANGED parameters

(***************************************************************************)
(* resetMission.                                                           *)
(***************************************************************************)
\* resetMission has no handle on the suspended invocations: they stay as they
\* are, marked as having had the results cleared under them
ClearedUnder(suspended) ==
  [i \in 1..Len(suspended) |-> [suspended[i] EXCEPT !.cleared = TRUE]]

\* resetMission that also abandons the run in flight
ResetMissionCancelling ==
  /\ results' = DefaultResults
  /\ computedBy' = "default"
  /\ isAnimating' = FALSE
  /\ apiError' = Null
  /\ isSimulating' = FALSE
  /\ calls' = << >>
  /\ last' = Storing(Op("reset", None), <<"default">>)
  /\ UNCHANGED sceneVars
  /\ UNCHANGED firstFailed
  /\ UNCHANGED <<parameters, uncaught>>

\* resetMission without setApiError(null)
ResetMissionKeepsApiError ==
  /\ results' = DefaultResults
  /\ computedBy' = "default"
  /\ isAnimating' = FALSE
  /\ last' = Storing(Op("reset", None), <<"default">>)
  /\ UNCHANGED sceneVars
  /\ UNCHANGED firstFailed
  /\ calls' = ClearedUnder(calls)
  /\ UNCHANGED <<parameters, isSimulating, apiError, uncaught>>

\* resetMission clearing the numbers and the status but not the mission log
ResetMissionKeepsLog ==
  /\ results' = [DefaultResults EXCEPT !.missionLog = results.missionLog]
  /\ computedBy' = "default"
  /\ isAnimating' = FALSE
  /\ apiError' = Null
  /\ last' = Storing(Op("reset", None), <<"default">>)
  /\ UNCHANGED sceneVars
  /\ UNCHANGED firstFailed
  /\ calls' = ClearedUnder(calls)
  /\ UNCHANGED <<parameters, isSimulating, uncaught>>

ResetMission ==
  /\ results' = DefaultResults
  /\ computedBy' = "default"
  /\ isAnimating' = FALSE
  /\ apiError' = Null
  /\ last' = Storing(Op("reset", None), <<"default">>)
  /\ UNCHANGED sceneVars
  /\ UNCHANGED firstFailed
  /\ calls' = ClearedUnder(calls)
  /\ UNCHANGED <<parameters, isSimulating, uncaught>>

Next ==
  \/ \E v \in LaunchDates : SetLaunchDate(v)
  \/ \E v \in PropulsionTypes : SetPropulsionType(v)
  \/ \E v \in PayloadSizes : SetPayloadSize(v)
  \/ SimulateMission
  \/ \E i \in 1..Len(calls), t \in Transports : Respond(i, t)
  \/ \E i \in 1..Len(calls) : Resume(i)
  \/ ResetMission

Spec == Init /\ [][Next]_vars

\* the remote call resolves or rejects, and the suspended handler is then resumed
FairSpec ==
  /\ Spec
  /\ WF_vars(\E i \in 1..Len(calls), t \in Transports : Respond(i, t))
  /\ WF_vars(\E i \in 1..Len(calls) : Resume(i))

(***************************************************************************)
(* Failed runs compared: the same handlers, with the first failed run kept *)
(* in firstFailed, over two launch dates, two propulsion types, two        *)
(* payload sizes, every way the delegation can fail and one response that  *)
(* succeeds.                                                               *)
(***************************************************************************)
ComparedLaunchDates == {InitialLaunchDate, "2026-06-15T12:00"}

ComparedPropulsionTypes == {"ion", "chemical"}

ComparedPayloadSizes == {"medium", "large"}

ComparedTransports ==
  {t \in Transports : t.data = None \/ t.data[1].mission_status = "success"}

FailedRunsInit == HooksInit /\ firstFailed = Compared /\ SceneIdle

FailedRunsNext ==
  \/ \E v \in ComparedLaunchDates : SetLaunchDate(v)
  \/ \E v \in ComparedPropulsionTypes : SetPropulsionType(v)
  \/ \E v \in ComparedPayloadSizes : SetPayloadSize(v)
  \/ SimulateMission
  \/ \E i \in 1..Len(calls), t \in ComparedTransports : Respond(i, t)
  \/ \E i \in 1..Len(calls) : Resume(i)
  \/ ResetMission

FailedRunsSpec == FailedRunsInit /\ [][FailedRunsNext]_vars

(***************************************************************************)
(* Vocabulary of the properties below.                                     *)
(***************************************************************************)
\* 2^-40: decimal values and binary64 results closer than this are taken as equal
Tolerance == [neg |-> FALSE, man |-> <<1>>, exp |-> -40]

Close(x, y) == FLess(FAbs(FSub(x, y)), Tolerance)

\* the delegation failed: no 2xx response, or a 2xx response without a readable body
DelegationFailed(transport) ==
  \/ transport.kind # "response"
  \/ transport.status < 200
  \/ transport.status > 299
  \/ transport.data = None

\* the state is the one a resumed run left: the run had failed / had succeeded
FallbackSettled == last.op = "resume" /\ DelegationFailed(last.call[1].transport)

RemoteSettled == last.op = "resume" /\ ~DelegationFailed(last.call[1].transport)

\* the table of section 4.3 in exact decimal arithmetic, in tenths
DeltaVTenths == [p \in PropulsionTypes |->
                   IF p = "chemical" THEN 12 ELSE IF p = "ion" THEN 8 ELSE 3]

TimeTenths == [p \in PropulsionTypes |->
                 IF p = "chemical" THEN 8 ELSE IF p = "ion" THEN 12 ELSE 20]

SuccessTenths == [p \in PropulsionTypes |->
                    IF p = "chemical" THEN 6 ELSE IF p = "ion" THEN 8 ELSE 5]

FactorTenths == [s \in PayloadSizes |->
                   IF s = "small" THEN 9 ELSE IF s = "medium" THEN 10 ELSE 13]

AdjustTenths == [s \in PayloadSizes |->
                   IF s = "small" THEN 1 ELSE IF s = "medium" THEN 0 ELSE -1]

ClampInt(v, lo, hi) == MaxInt(lo, MinInt(hi, v))

\* the table's outcome for each combination, as the binary64 nearest to the decimal
TableOutcome ==
  [p \in PropulsionTypes, s \in PayloadSizes |->
     [deltaV             |-> Dec(15 * DeltaVTenths[p] * FactorTenths[s], 100),
      transitYears       |-> Dec(5 * TimeTenths[p] * FactorTenths[s], 100),
      successProbability |->
        Dec(ClampInt(10 * (SuccessTenths[p] + AdjustTenths[s]), 10, 95), 100)]]

ScenarioA ==
  [deltaV |-> Dec(12, 1), transitYears |-> Dec(6, 1), successProbability |-> Dec(8, 10),
   propellantCost |-> Dec(96, 10), status |-> "success"]

ScenarioB ==
  [deltaV |-> Dec(585, 100), transitYears |-> Dec(13, 1),
   successProbability |-> Dec(4, 10), status |-> "warning"]

StatusThreshold == Dec(7, 10)

CostFactor == Dec(8, 10)

(***************************************************************************)
(* C1.  When the remote call fails, the stored outcome equals the table    *)
(* formula for each of the nine (propulsion, payload) combinations:        *)
(* deltaV = 15 x deltaV-multiplier x payload factor, transitYears = 5 x    *)
(* time-multiplier x payload factor, successProbability = clamp(success-   *)
(* base + adjustment, 0.1, 0.95); ion/medium gives 12.0, 6.0, 0.8, cost    *)
(* 9.6, "success"; solar-sail/large gives 5.85, 13.0, 0.4, "warning".      *)
(* Decimal values are compared with the binary64 results up to Tolerance.  *)
(***************************************************************************)
C1_FallbackEqualsTable ==
  FallbackSettled =>
    LET p == last.call[1].closure.propulsionType
        s == last.call[1].closure.payloadSize
        t == TableOutcome[p, s]
    IN  /\ Close(results.deltaV, t.deltaV)
        /\ Close(results.travelTime, t.transitYears)
        /\ Close(results.successProbability, t.successProbability)
        /\ (p = "ion" /\ s = "medium") =>
             /\ Close(results.deltaV, ScenarioA.deltaV)
             /\ Close(results.travelTime, ScenarioA.transitYears)
             /\ Close(results.successProbability, ScenarioA.successProbability)
             /\ Close(results.fuelCost, ScenarioA.propellantCost)
             /\ results.missionStatus = ScenarioA.status
        /\ (p = "solar-sail" /\ s = "large") =>
             /\ Close(results.deltaV, ScenarioB.deltaV)
             /\ Close(results.travelTime, ScenarioB.transitYears)
             /\ Close(results.successProbability, ScenarioB.successProbability)
             /\ results.missionStatus = ScenarioB.status

\* scenario B has run: a failed solar-sail/large run has stored its outcome
C1_Witness ==
  /\ FallbackSettled
  /\ last.call[1].closure.propulsionType = "solar-sail"
  /\ last.call[1].closure.payloadSize = "large"
  /\ last.call[1].closure.launchDate = InitialLaunchDate
  /\ results.missionStatus = "warning"

(***************************************************************************)
(* C2.  No failure of the remote call escapes simulateMission: after a     *)
(* run whose delegation failed (timeout, network error, non-2xx status,    *)
(* unreadable response) the complete fallback outcome is stored, the       *)
(* degraded-mode flag is set, the run is settled and nothing was thrown    *)
(* to the caller.                                                          *)
(***************************************************************************)
C2_NoFailureEscapes ==
  /\ ~uncaught
  /\ FallbackSettled =>
       /\ results = FallbackResults(last.call[1].closure)
       /\ Len(results.missionLog) = 5
       /\ results.missionStatus \in {"success", "warning"}
       /\ apiError = OfflineMessage
       /\ RunState = "Settled"

\* a run has settled whose 2xx response had no readable body
C2_Witness ==
  /\ FallbackSettled
  /\ last.call[1].transport.kind = "response"
  /\ last.call[1].transport.status = 200
  /\ apiError # Null

(***************************************************************************)
(* C3.  At most one run is in flight: while the state is Running exactly   *)
(* one call is suspended and a further simulate invocation is impossible   *)
(* (the button is disabled), so no second remote call starts; when the     *)
(* run's outcome has been stored no other run is left to store another.    *)
(***************************************************************************)
C3_SingleFlight ==
  /\ Len(calls) <= 1
  /\ isSimulating <=> Len(calls) = 1
  /\ isSimulating => ~ENABLED SimulateMission
  /\ last.op = "resume" => calls = << >>

\* a run is in flight and its remote call has been answered but not yet resumed
C3_Witness ==
  /\ RunState = "Running"
  /\ Len(calls) = 1
  /\ calls[1].transport # Pending

(***************************************************************************)
(* C4 (as claimed).  reset() is valid from any state, including Running:   *)
(* after reset() the stored outcome is the empty default and the state is  *)
(* Idle.                                                                   *)
(***************************************************************************)
C4_ResetReturnsToIdle ==
  last.op = "reset" => (results = DefaultResults /\ RunState = "Idle")

(***************************************************************************)
(* C5.  Every run that enters Running eventually reaches Settled with its  *)
(* outcome stored (remote-derived on success, fallback-derived on          *)
(* failure), and no run ends without an outcome; the remote call is        *)
(* assumed to resolve or reject eventually (FairSpec).                     *)
(***************************************************************************)
OutcomeOfRunStored ==
  /\ last.op = "resume"
  /\ RunState = "Settled"
  /\ IF DelegationFailed(last.call[1].transport)
       THEN results = FallbackResults(last.call[1].closure)
       ELSE results = FromApiResults(last.call[1].transport.data[1])

C5_EveryRunSettles ==
  /\ isSimulating ~> OutcomeOfRunStored
  /\ [](last.op = "resume" => OutcomeOfRunStored)

\* a run that had been started from Settled has settled with a remote outcome
C5_Witness ==
  /\ RemoteSettled
  /\ RunState = "Settled"
  /\ results.missionStatus = "failure"

(***************************************************************************)
(* C6 (as claimed).  In every reachable state the stored outcome has       *)
(* successProbability in [0,1] and non-negative deltaV, transitYears and   *)
(* propellantCost, for every response the remote service may return.       *)
(***************************************************************************)
C6_OutcomeInRange ==
  /\ FLeq(Zero, results.successProbability)
  /\ FLeq(results.successProbability, One)
  /\ FLeq(Zero, results.deltaV)
  /\ FLeq(Zero, results.travelTime)
  /\ FLeq(Zero, results.fuelCost)

(***************************************************************************)
(* C7.  For all parameters the fallback outcome has successProbability in  *)
(* [0,1], deltaV >= 0, transitYears >= 0 and propellantCost = 0.8 x deltaV.*)
(***************************************************************************)
C7_FallbackRanges ==
  FallbackSettled =>
    /\ FLeq(Zero, results.successProbability)
    /\ FLeq(results.successProbability, One)
    /\ FLeq(Zero, results.deltaV)
    /\ FLeq(Zero, results.travelTime)
    /\ results.fuelCost = FMul(CostFactor, results.deltaV)

\* a failed chemical/large run has stored its outcome, its cost not zero
C7_Witness ==
  /\ FallbackSettled
  /\ last.call[1].closure.propulsionType = "chemical"
  /\ last.call[1].closure.payloadSize = "large"
  /\ results.fuelCost # Zero

(***************************************************************************)
(* C8.  The fallback outcome's status is "success" if and only if its      *)
(* success probability is strictly greater than 0.7, and "warning"         *)
(* otherwise.                                                              *)
(***************************************************************************)
C8_FallbackStatus ==
  FallbackSettled =>
    /\ results.missionStatus = "success"
         <=> FGreater(results.successProbability, StatusThreshold)
    /\ results.missionStatus # "success" => results.missionStatus = "warning"

\* the boundary: a fallback outcome whose probability is exactly 0.7
C8_Witness ==
  /\ FallbackSettled
  /\ results.successProbability = StatusThreshold
  /\ results.missionStatus = "warning"

(***************************************************************************)
(* C9.  When the remote call succeeds the stored outcome equals the        *)
(* response field for field (travel_time -> transitYears, delta_v ->       *)
(* deltaV, success_probability -> successProbability, mission_log -> log,  *)
(* fuel_cost -> propellantCost, mission_status -> status), no value        *)
(* changed, and the degraded-mode flag is not set when the run settles.    *)
(***************************************************************************)
C9_RemoteAdoptedVerbatim ==
  RemoteSettled =>
    LET body == last.call[1].transport.data[1]
    IN  /\ results.travelTime = body.travel_time
        /\ results.deltaV = body.delta_v
        /\ results.successProbability = body.success_probability
        /\ results.missionLog = body.mission_log
        /\ results.fuelCost = body.fuel_cost
        /\ results.missionStatus = body.mission_status
        /\ DOMAIN results = {"travelTime", "deltaV", "successProbability",
                             "missionLog", "fuelCost", "missionStatus"}
        /\ apiError = Null

\* a run started in degraded mode has settled with the nominal remote response
C9_Witness ==
  /\ RemoteSettled
  /\ results.missionStatus = "success"
  /\ results.fuelCost # results.deltaV
  /\ apiError = Null

(***************************************************************************)
(* C10.  reset() called from Settled, after a remote-derived or a          *)
(* fallback-derived outcome, leaves the state Idle, the outcome the empty  *)
(* default (all metrics 0, empty log, status pending) and the              *)
(* degraded-mode flag cleared.                                             *)
(***************************************************************************)
C10_ResetFromSettled ==
  (last.op = "reset" /\ last.from = "Settled") =>
    /\ RunState = "Idle"
    /\ results.travelTime = Zero
    /\ results.deltaV = Zero
    /\ results.successProbability = Zero
    /\ results.fuelCost = Zero
    /\ results.missionLog = << >>
    /\ results.missionStatus = "pending"
    /\ apiError = Null

\* reset has acted on a Settled state that was in degraded mode
C10_Witness ==
  /\ last.op = "reset"
  /\ last.from = "Settled"
  /\ last.degraded
  /\ RunState = "Idle"

(***************************************************************************)
(* C11.  In every state where no run is in flight, the degraded-mode flag  *)
(* (apiError) is set if and only if the stored outcome was computed by the *)
(* local fallback; in no state is it set while the stored outcome is       *)
(* remote-derived or the empty default.                                    *)
(***************************************************************************)
C11_DegradedIffFallback ==
  /\ apiError # Null => computedBy = "fallback"
  /\ ~isSimulating => (apiError # Null <=> computedBy = "fallback")
  /\ computedBy = "default" => results = DefaultResults
  /\ computedBy = "fallback" =>
       \E p \in PropulsionTypes, s \in PayloadSizes : results = FallbackTable[p, s]

\* a fallback outcome is stored, the flag set, and the parameters were changed since
C11_Witness ==
  /\ ~isSimulating
  /\ apiError # Null
  /\ computedBy = "fallback"
  /\ last.op = "setParameters"

(***************************************************************************)
(* C12.  The parameters of a run are fixed when simulate is invoked: the   *)
(* request handed to the remote service carries exactly the launch date,   *)
(* propulsion type and payload size the component held at that moment, the *)
(* request and the captured parameters of a run in flight never change,    *)
(* and the fallback outcome is computed from the submitted values even if  *)
(* the parameters were changed while the run was in flight.                *)
(***************************************************************************)
C12_ParametersFixedAtInvoke ==
  /\ [](last.op = "simulate" =>
          /\ calls[Len(calls)].closure = parameters
          /\ calls[Len(calls)].request.launch_date = parameters.launchDate
          /\ calls[Len(calls)].request.propulsion_type = parameters.propulsionType
          /\ calls[Len(calls)].request.payload_size = parameters.payloadSize)
  /\ [][Len(calls') = Len(calls) =>
          \A i \in 1..Len(calls) :
            /\ calls'[i].request = calls[i].request
            /\ calls'[i].closure = calls[i].closure]_vars
  /\ [](FallbackSettled =>
          results = FallbackTable[last.call[1].request.propulsion_type,
                                  last.call[1].request.payload_size])

\* a failed run has settled after both selectors were changed while it was in flight
C12_Witness ==
  /\ FallbackSettled
  /\ parameters.propulsionType # last.call[1].request.propulsion_type
  /\ parameters.payloadSize # last.call[1].request.payload_size
  /\ results # FallbackResults(parameters)

(***************************************************************************)
(* C13 (as claimed).  A launch date that is not a parseable timestamp is   *)
(* rejected before any request is sent: simulate with such a value starts  *)
(* no remote call, so no call in flight carries an unparseable             *)
(* launch_date.                                                            *)
(***************************************************************************)
C13_UnparseableRejected ==
  /\ \A i \in 1..Len(calls) : DateParse(calls[i].request.launch_date) # << >>
  /\ (last.op = "simulate" /\ DateParse(parameters.launchDate) = << >>) =>
       (calls = << >> /\ ~isSimulating)

\* a point [x, y, z] is within the tolerance of a position
Near(point, position) == \A k \in 1..3 : Close(point[k], position[k])

\* C14: the curve getTrajectoryPoints returns has segments + 1 points, the first
\* at earthPosition and the last at atlasPosition within the floating tolerance,
\* for chemical, ion, solar-sail and for a propulsionType no case matches; the
\* code fixes the segment count at segments = 50
C14_CurveEndpoints ==
  points # None =>
    /\ Len(points[1]) = segments + 1
    /\ Near(points[1][1], lineProps[1].earthPosition)
    /\ Near(points[1][segments + 1], lineProps[1].atlasPosition)

\* a chemical curve between distinct positions whose middle point is off both
C14_Witness ==
  /\ points # None
  /\ lineProps[1].propulsionType = "chemical"
  /\ lineProps[1].earthPosition # lineProps[1].atlasPosition
  /\ ~Near(points[1][26], lineProps[1].earthPosition)
  /\ ~Near(points[1][26], lineProps[1].atlasPosition)

\* C15: when earthPosition equals atlasPosition, every point of the curve is that
\* position, for every propulsionType
C15_DegenerateRepeats ==
  (points # None /\ lineProps[1].earthPosition = lineProps[1].atlasPosition) =>
    /\ Len(points[1]) > 0
    /\ \A k \in 1..Len(points[1]) : Near(points[1][k], lineProps[1].earthPosition)

C17_OneOutcomePerRun ==
  /\ [](last.op = "resume" =>
          /\ Len(last.stores) = 1
          /\ last.stores[1] = computedBy
          /\ RemoteSettled =>
               /\ last.stores[1] = "remote"
               /\ results = FromApiResults(last.call[1].transport.data[1])
          /\ FallbackSettled =>
               /\ last.stores[1] = "fallback"
               /\ results = FallbackResults(last.call[1].closure))
  /\ [][last'.op \in {"simulate", "respond"} =>
          last'.stores = << >> /\ results' = results]_vars
  /\ [][last'.op = "resume" => Len(calls') = Len(calls) - 1]_vars

\* a run settled on a 2xx response without a body: the catch branch stored
C17_Witness ==
  /\ last.op = "resume"
  /\ last.call[1].transport.kind = "response"
  /\ last.call[1].transport.status = 200
  /\ last.call[1].transport.data = None
  /\ last.stores = <<"fallback">>

\* C18: results is always one whole value: the default of useState and resetMission,
\* the conversion of one remote response, or one fallback result; it changes
\* only in an operation that calls setResults, to the value that call was given
C18_ReplacedWholesale ==
  /\ [](/\ computedBy = "default" => results = DefaultResults
        /\ computedBy = "remote" =>
             \E b \in RemoteBodies : results = FromApiResults(b)
        /\ computedBy = "fallback" =>
             \E p \in PropulsionTypes, s \in PayloadSizes : results = FallbackTable[p, s])
  /\ [][results' # results => last'.stores = <<computedBy'>>]_vars

\* a remote response stored that is neither the default nor a fallback result
C18_Witness ==
  /\ computedBy = "remote"
  /\ RemoteSettled
  /\ results = FromApiResults(last.call[1].transport.data[1])
  /\ results # DefaultResults
  /\ \A p \in PropulsionTypes, s \in PayloadSizes : results # FallbackTable[p, s]

\* C19: resetMission during a run does not cancel it: the state stays Running and
\* the invocation stays suspended with its request, closure and answer; when it
\* is resumed, its outcome (and, if the delegation failed, the offline message)
\* replaces the cleared results
C19_ResetDoesNotCancel ==
  /\ []((last.op = "reset" /\ last.from = "Running") =>
          /\ RunState = "Running"
          /\ Len(calls) = 1
          /\ calls[1].cleared
          /\ results = DefaultResults
          /\ apiError = Null)
  /\ [][last'.op = "reset" =>
          /\ Len(calls') = Len(calls)
          /\ \A i \in 1..Len(calls) :
               /\ calls'[i].request = calls[i].request
               /\ calls'[i].closure = calls[i].closure
               /\ calls'[i].transport = calls[i].transport]_vars
  /\ []((last.op = "resume" /\ last.call[1].cleared) =>
          /\ RunState = "Settled"
          /\ computedBy # "default"
          /\ RemoteSettled =>
               /\ results = FromApiResults(last.call[1].transport.data[1])
               /\ apiError = Null
          /\ FallbackSettled =>
               /\ results = FallbackResults(last.call[1].closure)
               /\ apiError = OfflineMessage)

\* a run that was reset in flight has failed and left its fallback result
C19_Witness ==
  /\ last.op = "resume"
  /\ last.call[1].cleared
  /\ FallbackSettled
  /\ results # DefaultResults
  /\ apiError = OfflineMessage

\* C20: of the nine fallback results, chemical/small and ion/large have status
\* "warning", and exactly ion/small and ion/medium have status "success"
C20_StrictThreshold ==
  FallbackSettled =>
    LET closure == last.call[1].closure
    IN  /\ (closure.propulsionType = "chemical" /\ closure.payloadSize = "small") =>
             results.missionStatus = "warning"
        /\ (closure.propulsionType = "ion" /\ closure.payloadSize = "large") =>
             results.missionStatus = "warning"
        /\ results.missionStatus = "success" <=>
             (closure.propulsionType = "ion" /\ closure.payloadSize \in {"small", "medium"})

\* the decimal numeral a formatted number shows, as a binary64
Shown(formatted) ==
  LET d == Dec(formatted.digits, Pow10(formatted.places))
  IN  IF formatted.neg THEN FNeg(d) ELSE d

\* the numeral shows the value to the places it has: it is off by at most half a
\* unit of its last place (and the tolerance)
Shows(formatted, value) ==
  FLess(FAbs(FSub(Shown(formatted), value)),
        FAdd(Dec(5, 10 * Pow10(formatted.places)), Tolerance))

\* what the fallback results of each combination hold, formatted as the log does
FormattedOutcome ==
  [p \in PropulsionTypes, s \in PayloadSizes |->
     [deltaV      |-> ToFixed(FallbackTable[p, s].deltaV, 1),
      travelTime  |-> ToFixed(FallbackTable[p, s].travelTime, 1),
      successPct  |-> ToFixed(FMul(FallbackTable[p, s].successProbability,
                                   Dec(100, 1)), 0)]]

\* the formatted numbers show the values of the outcome
FormattedFaithful ==
  \A p \in PropulsionTypes, s \in PayloadSizes :
    /\ Shows(FormattedOutcome[p, s].deltaV, FallbackTable[p, s].deltaV)
    /\ Shows(FormattedOutcome[p, s].travelTime, FallbackTable[p, s].travelTime)
    /\ Shows(FormattedOutcome[p, s].successPct,
             FMul(FallbackTable[p, s].successProbability, Dec(100, 1)))

\* C21: the log of a fallback result has five entries, in this order: the offline
\* notice, the propulsion type and payload size of the run, deltaV, travel time
\* and success percentage; the three numbers are those of the stored results
C21_FallbackLogOrder ==
  FallbackSettled =>
    LET log     == results.missionLog
        closure == last.call[1].closure
        shown   == FormattedOutcome[closure.propulsionType, closure.payloadSize]
    IN  /\ results = FallbackResults(closure)
        /\ Len(log) = 5
        /\ log[1] = LogLine("Offline mode - API unavailable", << >>, << >>)
        /\ log[2] = LogLine("Mission parameters: {} propulsion, {} payload",
                            <<closure.propulsionType, closure.payloadSize>>, << >>)
        /\ log[3] = LogLine("Calculated deltaV requirement: {} km/s", << >>,
                            <<shown.deltaV>>)
        /\ log[4] = LogLine("Estimated travel time: {} years", << >>,
                            <<shown.travelTime>>)
        /\ log[5] = LogLine("Mission success probability: {}%", << >>,
                            <<shown.successPct>>)
        /\ FormattedFaithful

\* the fallback log of a solar-sail, large run: 5.9 km/s, 13.0 years, 40%
C21_Witness ==
  /\ FallbackSettled
  /\ last.call[1].closure.propulsionType = "solar-sail"
  /\ last.call[1].closure.payloadSize = "large"
  /\ Len(results.missionLog) = 5
  /\ results.missionLog[3].nums[1].digits = 59
  /\ results.missionLog[4].nums[1].digits = 130
  /\ results.missionLog[5].nums[1].digits = 40

\* ((segments - i) * a + i * b) / segments: the point at i / segments of the way
\* from a to b, computed without the difference b - a
Weighted(a, b, i) ==
  FDivSmall(FAdd(FMul(FInt(segments - i), a), FMul(FInt(i), b)), segments, 0)

\* C22: for a propulsionType that is none of chemical, ion, solar-sail, the point
\* pushed for each i is earthPosition + (atlasPosition - earthPosition) * t on
\* the three axes, which lies on the straight segment between the two positions
C22_DefaultIsLinear ==
  (points # None /\ lineProps[1].propulsionType \notin PropulsionTypes) =>
    \A i \in 0..segments : \A k \in 1..3 :
      /\ points[1][i + 1][k] =
           FAdd(lineProps[1].earthPosition[k],
                FMul(FSub(lineProps[1].atlasPosition[k], lineProps[1].earthPosition[k]),
                     SegmentFraction[i]))
      /\ Close(points[1][i + 1][k],
               Weighted(lineProps[1].earthPosition[k], lineProps[1].atlasPosition[k], i))

\* the curve of an unmatched propulsionType between two positions apart on the
\* three axes, with a middle point away from both
C22_Witness ==
  /\ points # None
  /\ lineProps[1].propulsionType = "nuclear"
  /\ lineProps[1].earthPosition = LowPosition
  /\ lineProps[1].atlasPosition = HighPosition
  /\ \A k \in 1..3 : ~Close(points[1][26][k], LowPosition[k])
  /\ \A k \in 1..3 : ~Close(points[1][26][k], HighPosition[k])

\* C23: a failed run stores the same results as the first failed run whenever the
\* two had the same propulsion type and payload size, whatever their launch
\* dates, the ways their delegations failed and the results they found
C23_FallbackDependsOnSelection ==
  (FallbackSettled /\ firstFailed.run # None) =>
    LET first == firstFailed.run[1]
        now   == last.call[1]
    IN  (/\ first.call.closure.propulsionType = now.closure.propulsionType
         /\ first.call.closure.payloadSize = now.closure.payloadSize)
          => results = first.results

\* a second failed run of the same selection with another launch date, another
\* failure, started over remote results where the first found the default ones
C23_Witness ==
  /\ FallbackSettled
  /\ firstFailed.run # None
  /\ firstFailed.run[1].call.closure.propulsionType = last.call[1].closure.propulsionType
  /\ firstFailed.run[1].call.closure.payloadSize = last.call[1].closure.payloadSize
  /\ firstFailed.run[1].call.closure.launchDate # last.call[1].closure.launchDate
  /\ firstFailed.run[1].call.transport.kind = "timeout"
  /\ last.call[1].transport.kind = "response"
  /\ firstFailed.run[1].over = "default"
  /\ last.over = "remote"
  /\ results = firstFailed.run[1].results

C25_ParametersLeaveOutcome ==
  [][last'.op = "setParameters" =>
       /\ results' = results
       /\ computedBy' = computedBy
       /\ RunState' = RunState
       /\ isSimulating' = isSimulating
       /\ isAnimating' = isAnimating
       /\ apiError' = apiError
       /\ calls' = calls
       /\ SpaceSceneProps'.missionResults = SpaceSceneProps.missionResults
       /\ SpaceSceneProps'.propulsionType = parameters'.propulsionType]_vars

\* Settled with the fallback results of an ion run while the curve is drawn for
\* solar-sail
C25_Witness ==
  /\ last.op = "setParameters"
  /\ RunState = "Settled"
  /\ computedBy = "fallback"
  /\ apiError # Null
  /\ SpaceSceneProps.missionResults.missionLog[2].strs[1] = "ion"
  /\ SpaceSceneProps.propulsionType = "solar-sail"

\* successBase after the two switches, for each combination
AdjustedSuccessBase ==
  [p \in PropulsionTypes, s \in PayloadSizes |->
     PayloadSwitch(PropulsionSwitch(p), s).successBase]

\* the nine values lie between 0.4 and 0.9, inside the limits 0.1 and 0.95 of
\* the clamp, and both ends are taken
SuccessBaseRange ==
  /\ \A p \in PropulsionTypes, s \in PayloadSizes :
       /\ FLeq(Dec(4, 10), AdjustedSuccessBase[p, s])
       /\ FLeq(AdjustedSuccessBase[p, s], Dec(9, 10))
       /\ FLess(Dec(1, 10), AdjustedSuccessBase[p, s])
       /\ FLess(AdjustedSuccessBase[p, s], Dec(95, 100))
  /\ \E p \in PropulsionTypes, s \in PayloadSizes :
       AdjustedSuccessBase[p, s] = Dec(4, 10)
  /\ \E p \in PropulsionTypes, s \in PayloadSizes :
       AdjustedSuccessBase[p, s] = Dec(9, 10)

\* C26: the successBase of the nine combinations, adjusted for the payload size,
\* lies between 0.4 and 0.9, so Math.max(0.1, Math.min(0.95, successBase)) returns
\* it unchanged and the fallback successProbability is that value
C26_ClampIsIdentity ==
  FallbackSettled =>
    /\ SuccessBaseRange
    /\ results.successProbability =
         AdjustedSuccessBase[last.call[1].closure.propulsionType,
                             last.call[1].closure.payloadSize]

\* the fallback of ion, small: 0.8 + 0.1, the value nearest to the upper limit
C26_Witness ==
  /\ FallbackSettled
  /\ last.call[1].closure.propulsionType = "ion"
  /\ last.call[1].closure.payloadSize = "small"
  /\ results.successProbability = Dec(9, 10)

=========================================================================
